---- MODULE Spec2Model ----
(***************************************************************************)
(* Model of the team-calendar command of gogcli (internal/cmd, the file    *)
(* that declares CalendarTeamCmd): runEvents' bounded fan-out over the     *)
(* members of a group, the per-member filtering, the mutex-guarded shared  *)
(* buffers, the sort and dedupeTeamEvents.                                 *)
(*                                                                         *)
(* Strings are sequences of tokens (one-character strings for titles and   *)
(* queries, whole identifiers for e-mail addresses and ids), so that       *)
(* concatenation is \o, strings.Contains is a subsequence search and       *)
(* strings.ToLower maps characters.                                        *)
(*                                                                         *)
(* Times: an RFC3339 string is [day, min, off] (calendar day, minute of    *)
(* the day, zone offset in minutes); day = 0 is the empty string and       *)
(* day = -1 a string time.Parse rejects.  A date string is its day number  *)
(* with the same two special values.  An instant is minutes since the      *)
(* model's epoch; time.Time{} is ZeroTime, before every parsed instant.    *)
(*                                                                         *)
(* Atomicity: a goroutine step runs from one synchronisation operation     *)
(* (channel send, call.Do, mu.Lock) up to the next one; code that touches  *)
(* only the goroutine's locals is part of the step that precedes it, and   *)
(* the deferred <-sem and wg.Done run in the step that reaches the return. *)
(***************************************************************************)
EXTENDS Integers, Sequences, FiniteSets, TLC

VARIABLES
    emails,     \* runEvents' emails parameter: the member list
    resp,       \* resp[i]: what Events.List(emails[i]).Do() returns
    query,      \* c.Query
    noDedup,    \* c.NoDedup
    loc,        \* tr.Location, as an offset in minutes
    mainpc,     \* position of runEvents itself
    spawned,    \* number of goroutines the range loop has started
    gpc,        \* gpc[i]: position of the goroutine of emails[i]
    idx,        \* idx[i]: index in resp[i].items of the item being appended
    sem,        \* number of tokens in the channel sem
    mu,         \* 0 when the mutex is free, else the goroutine holding it
    wg,         \* the WaitGroup counter
    events,     \* the shared slice events
    errors,     \* the shared slice errors
    warnings,   \* what was printed to stderr as warnings
    out,        \* the rendered event list
    ret,        \* runEvents' return value ("" while running, "nil" = no error)
    din,        \* argument of a stand-alone dedupeTeamEvents call
    dout,       \* its successive results
    cancelled,  \* ctx.Done() is closed
    gerr,       \* gerr[i]: the err of the goroutine of emails[i] ("" = nil)
    runpc,      \* position of CalendarTeamCmd.Run
    group,      \* c.GroupEmail
    freeBusy,   \* c.FreeBusy
    world,      \* what the services outside the command answer
    members,    \* Run's memberEmails
    calls,      \* the services created and requests issued by Run and
                \* runFreeBusy, in order
    runret,     \* Run's return value ("" while running, "nil" = no error)
    stderr,     \* the lines Run printed to stderr
    fbout,      \* the free/busy results rendered
    primaryFile,\* the file at tracking.ConfigPath()
    legacyFile, \* the file at legacyConfigPath()
    saved,      \* the last tracking.SaveConfig call and what it returned
    loaded      \* the last tracking.LoadConfig call and what it returned

(* the state of Run and runFreeBusy *)
outer == <<runpc, group, freeBusy, world, members, calls, runret, stderr, fbout>>
(* the tracking configuration on disk and the calls made on it *)
disk == <<primaryFile, legacyFile, saved, loaded>>
(* what the steps of runEvents and of its goroutines only read *)
inputs == <<emails, resp, query, noDedup, loc, cancelled, outer, disk>>
shared == <<sem, mu, wg, events, errors>>
vars == <<emails, resp, query, noDedup, loc, mainpc, spawned, gpc, idx,
          sem, mu, wg, events, errors, warnings, out, ret, din, dout,
          cancelled, gerr, runpc, group, freeBusy, world, members, calls,
          runret, stderr, fbout, primaryFile, legacyFile, saved, loaded>>

-----------------------------------------------------------------------------
(* Bounds of the model. *)
MaxMembers == 2
MaxItems == 2
FanExtra == 1
FilterItems == 1
MaxLen == 3

(* make(chan struct{}, 10) *)
SemCap == 10

AllEmails == <<"alice", "bob", "carol", "dave", "erin", "frank", "grace",
               "heidi", "ivan", "judy", "karl", "lena", "mona", "nick">>

-----------------------------------------------------------------------------
(* strings *)
UpperCase == <<"A","B","C","D","E","F","G","H","I","J","K","L","M",
               "N","O","P","Q","R","S","T","U","V","W","X","Y","Z">>
LowerCase == <<"a","b","c","d","e","f","g","h","i","j","k","l","m",
               "n","o","p","q","r","s","t","u","v","w","x","y","z">>

ToLowerChar(c) ==
    IF \E k \in 1..26 : UpperCase[k] = c
    THEN LowerCase[CHOOSE k \in 1..26 : UpperCase[k] = c]
    ELSE c

ToLower(s) == [k \in 1..Len(s) |-> ToLowerChar(s[k])]

Contains(s, sub) ==
    \E k \in 0..(Len(s) - Len(sub)) : SubSeq(s, k + 1, k + Len(sub)) = sub

BusySentinel == <<"(", "b", "u", "s", "y", ")">>

-----------------------------------------------------------------------------
(* times *)
ZeroTime == 0
MinutesPerDay == 24 * 60

EmptyDT == [day |-> 0, min |-> 0, off |-> 0]
BadDT == [day |-> -1, min |-> 0, off |-> 0]
DT(d, m, o) == [day |-> d, min |-> m, off |-> o]

ParsesRFC3339(dt) == dt.day >= 1
InstantOfRFC3339(dt) == dt.day * MinutesPerDay + dt.min - dt.off
ParsesDate(d) == d >= 1
InstantOfDate(d) == d * MinutesPerDay

(* t.In(loc).Format("15:04") *)
FormatClock(t, l) == <<"clock", (t + l) % MinutesPerDay>>
(* a date string shown as it was received *)
RawDate(d) == <<"date", d>>
EmptyString == <<>>

NilBlock == [nil |-> TRUE, date |-> 0, dateTime |-> EmptyDT]
DateBlock(d) == [nil |-> FALSE, date |-> d, dateTime |-> EmptyDT]
TimeBlock(dt) == [nil |-> FALSE, date |-> 0, dateTime |-> dt]

FormatStart(ev, l) ==
    IF ev.start.nil THEN EmptyString
    ELSE IF ev.start.date # 0 THEN RawDate(ev.start.date)
    ELSE IF ev.start.dateTime.day # 0 /\ ParsesRFC3339(ev.start.dateTime)
         THEN FormatClock(InstantOfRFC3339(ev.start.dateTime), l)
    ELSE EmptyString

FormatEnd(ev, l) ==
    IF ev.start.nil THEN EmptyString
    ELSE IF ev.start.date # 0
         THEN IF ~ev.end.nil /\ ev.end.date # 0 THEN RawDate(ev.end.date)
              ELSE EmptyString
    ELSE IF ~ev.end.nil /\ ev.end.dateTime.day # 0 /\ ParsesRFC3339(ev.end.dateTime)
         THEN FormatClock(InstantOfRFC3339(ev.end.dateTime), l)
    ELSE EmptyString

parseEventStart(ev) ==
    IF ev.start.nil THEN ZeroTime
    ELSE IF ev.start.dateTime.day # 0 /\ ParsesRFC3339(ev.start.dateTime)
         THEN InstantOfRFC3339(ev.start.dateTime)
    ELSE IF ev.start.date # 0 /\ ParsesDate(ev.start.date)
         THEN InstantOfDate(ev.start.date)
    ELSE ZeroTime

-----------------------------------------------------------------------------
(* raw events, as the Calendar API returns them *)
Attendee(s, r) == [self |-> s, responseStatus |-> r]

RawEvent(i, s, v, a, st, en) ==
    [isNil |-> FALSE, id |-> i, summary |-> s, visibility |-> v,
     attendees |-> a, start |-> st, end |-> en, status |-> "confirmed"]

NilEvent ==
    [isNil |-> TRUE, id |-> "", summary |-> <<>>, visibility |-> "",
     attendees |-> <<>>, start |-> NilBlock, end |-> NilBlock, status |-> ""]

(* slow: the answer is still outstanding when a cancellation is noticed *)
OkResp(items) == [err |-> "", items |-> items, slow |-> FALSE]
ErrResp(e) == [err |-> e, items |-> <<>>, slow |-> FALSE]
SlowResp(r) == [r EXCEPT !.slow = TRUE]

(* ctx.Err() after cancellation *)
CtxErr == "context canceled"

-----------------------------------------------------------------------------
(* the per-item checks of the goroutine body *)
(* only the first attendee is looked at *)
DeclinedFirstAttendee(ev) ==
    /\ Len(ev.attendees) >= 1
    /\ ev.attendees[1].self
    /\ ev.attendees[1].responseStatus = "declined"

Declined(ev) ==
    \E k \in 1..Len(ev.attendees) :
        ev.attendees[k].self /\ ev.attendees[k].responseStatus = "declined"

Private(ev) == ev.visibility = "private" \/ ev.visibility = "confidential"

MaskedSummary(ev) == IF Private(ev) THEN BusySentinel ELSE ev.summary

QueryLower == ToLower(query)

(* the summary is compared as it is spelled *)
MatchesQueryCaseSensitive(summary) ==
    ~(QueryLower # <<>> /\ ~Contains(summary, QueryLower))

MatchesQuery(summary) ==
    ~(QueryLower # <<>> /\ ~Contains(ToLower(summary), QueryLower))

(* the query filter applied to the title before masking *)
KeepRawTitle(ev) ==
    /\ ~ev.isNil
    /\ ~Declined(ev)
    /\ MatchesQuery(ev.summary)

(* events without a start block are skipped *)
KeepStarted(ev) ==
    /\ ~ev.isNil
    /\ ~ev.start.nil
    /\ ~Declined(ev)
    /\ MatchesQuery(MaskedSummary(ev))

(* events whose times do not parse are skipped *)
KeepParseable(ev) ==
    /\ ~ev.isNil
    /\ ~(~ev.start.nil /\ ev.start.dateTime.day < 0)
    /\ ~(~ev.end.nil /\ ev.end.dateTime.day < 0)
    /\ ~Declined(ev)
    /\ MatchesQuery(MaskedSummary(ev))

Keep(ev) ==
    /\ ~ev.isNil
    /\ ~Declined(ev)
    /\ MatchesQuery(MaskedSummary(ev))

MakeTeamEvent(email, ev) ==
    [Who |-> <<email>>, ID |-> ev.id,
     Start |-> FormatStart(ev, loc), End |-> FormatEnd(ev, loc),
     Summary |-> MaskedSummary(ev), Status |-> ev.status,
     sortKey |-> parseEventStart(ev)]

(* the warning without the member *)
FormatErrorBare(email, err) == <<err>>

FormatError(email, err) == <<email, ": ", err>>

(* index of the first item at or after k that reaches the append, or
   Len + 1 when the range loop ends first *)
RECURSIVE NextKept(_, _)
NextKept(items, k) ==
    IF k > Len(items) THEN k
    ELSE IF Keep(items[k]) THEN k
    ELSE NextKept(items, k + 1)

-----------------------------------------------------------------------------
(* sort.Slice(events, less): on slices of at most 12 elements Go's
   pdqsort is insertion sort, and the buffers of this model are shorter *)
(* the comparison the wrong way round *)
LessDescending(a, b) == b.sortKey < a.sortKey

Less(a, b) == a.sortKey < b.sortKey

Swap(s, a, b) == [s EXCEPT ![a] = s[b], ![b] = s[a]]

RECURSIVE SinkDown(_, _)
SinkDown(s, j) ==
    IF j > 1 /\ Less(s[j], s[j - 1]) THEN SinkDown(Swap(s, j, j - 1), j - 1)
    ELSE s

RECURSIVE InsertionSortFrom(_, _)
InsertionSortFrom(s, k) ==
    IF k > Len(s) THEN s ELSE InsertionSortFrom(SinkDown(s, k), k + 1)

SortSlice(s) == InsertionSortFrom(s, 2)

-----------------------------------------------------------------------------
(* dedupeTeamEvents: seen maps an id to its index in result *)
SeenIndex(result, id) ==
    IF \E k \in 1..Len(result) : result[k].ID = id
    THEN CHOOSE k \in 1..Len(result) : result[k].ID = id
    ELSE 0

(* a later copy is dropped without its owner being recorded *)
DedupeStepDropsWho(result, ev) ==
    IF SeenIndex(result, ev.ID) # 0 THEN result ELSE Append(result, ev)

(* a later copy is merged and kept as well *)
DedupeStepKeepsBoth(result, ev) ==
    IF SeenIndex(result, ev.ID) # 0
    THEN Append([result EXCEPT ![SeenIndex(result, ev.ID)].Who = @ \o <<", ">> \o ev.Who],
                ev)
    ELSE Append(result, ev)

(* a later copy takes the place of the first one *)
DedupeStepKeepsLast(result, ev) ==
    IF SeenIndex(result, ev.ID) # 0
    THEN [result EXCEPT ![SeenIndex(result, ev.ID)] =
            [ev EXCEPT !.Who = result[SeenIndex(result, ev.ID)].Who \o <<", ">> \o ev.Who]]
    ELSE Append(result, ev)

DedupeStep(result, ev) ==
    IF SeenIndex(result, ev.ID) # 0
    THEN [result EXCEPT ![SeenIndex(result, ev.ID)].Who = @ \o <<", ">> \o ev.Who]
    ELSE Append(result, ev)

RECURSIVE DedupeFrom(_, _, _)
DedupeFrom(evs, k, result) ==
    IF k > Len(evs) THEN result
    ELSE DedupeFrom(evs, k + 1, DedupeStep(result, evs[k]))

dedupeTeamEvents(evs) == DedupeFrom(evs, 1, <<>>)

(* a list in the order sort.Slice leaves it in *)
NonDecreasing(evs) ==
    \A k \in 1..(Len(evs) - 1) : evs[k].sortKey <= evs[k + 1].sortKey

-----------------------------------------------------------------------------
(* runEvents *)
N == Len(emails)
Goroutines == 1..N

InFlight == {i \in Goroutines : gpc[i] = "fetch"}

(* a send that never blocks *)
SemNeverFull == TRUE

SemHasRoom == sem < SemCap

(* a return that leaves its token in the channel *)
SlotKept == sem

(* defer func() { <-sem }() *)
Released == sem - 1

(* a wait that returns at once *)
WaitSkipped == TRUE

(* wg.Wait() can return *)
WaitOver == wg = 0

(* for _, email := range emails { wg.Add(1); go func(email string) {...} } *)
Spawn ==
    /\ mainpc = "spawn"
    /\ spawned < N
    /\ wg' = wg + 1
    /\ gpc' = [gpc EXCEPT ![spawned + 1] = "sem"]
    /\ spawned' = spawned + 1
    /\ mainpc' = IF spawned + 1 = N THEN "wait" ELSE "spawn"
    /\ UNCHANGED <<inputs, gerr, idx, sem, mu, events, errors, warnings, out, ret,
                   din, dout>>

(* sem <- struct{}{}, then the request is built and call.Do() issued; a
   call issued with a context that is already cancelled fails with ctx.Err() *)
Acquire(i) ==
    /\ gpc[i] = "sem"
    /\ SemHasRoom
    /\ sem' = sem + 1
    /\ gpc' = [gpc EXCEPT ![i] = "fetch"]
    /\ gerr' = [gerr EXCEPT ![i] = IF cancelled THEN CtxErr ELSE ""]
    /\ UNCHANGED <<inputs, mainpc, spawned, idx, mu, wg, events, errors,
                   warnings, out, ret, din, dout>>

(* the err call.Do() returns: ctx.Err() when the call was issued after the
   cancellation or is still outstanding when it is noticed, else the
   server's answer *)
Observed(i) ==
    IF gerr[i] # "" THEN gerr[i]
    ELSE IF cancelled /\ resp[i].slow THEN CtxErr
    ELSE resp[i].err

(* call.Do() returns an error *)
ReturnErr(i) ==
    /\ gpc[i] = "fetch"
    /\ Observed(i) # ""
    /\ gerr' = [gerr EXCEPT ![i] = Observed(i)]
    /\ gpc' = [gpc EXCEPT ![i] = "lockErr"]
    /\ UNCHANGED <<inputs, mainpc, spawned, idx, shared, warnings, out, ret,
                   din, dout>>

(* mu.Lock() of the error path *)
LockErr(i) ==
    /\ gpc[i] = "lockErr"
    /\ mu = 0
    /\ mu' = i
    /\ gpc' = [gpc EXCEPT ![i] = "appendErr"]
    /\ UNCHANGED <<inputs, gerr, mainpc, spawned, idx, sem, wg, events, errors,
                   warnings, out, ret, din, dout>>

(* errors = append(errors, ...); mu.Unlock(); return (<-sem; wg.Done()) *)
AppendErr(i) ==
    /\ gpc[i] = "appendErr"
    /\ mu = i
    /\ errors' = Append(errors, FormatError(emails[i], gerr[i]))
    /\ mu' = 0
    /\ sem' = Released
    /\ wg' = wg - 1
    /\ gpc' = [gpc EXCEPT ![i] = "exit"]
    /\ UNCHANGED <<inputs, gerr, mainpc, spawned, idx, events, warnings, out, ret,
                   din, dout>>

(* a loop that returns after the first event it appended *)
AdvanceStopsAfterFirst(i, k) ==
    IF k = 1 /\ NextKept(resp[i].items, k) <= Len(resp[i].items)
    THEN /\ idx' = [idx EXCEPT ![i] = NextKept(resp[i].items, k)]
         /\ gpc' = [gpc EXCEPT ![i] = "lockEv"]
         /\ UNCHANGED <<sem, wg>>
    ELSE /\ idx' = [idx EXCEPT ![i] = Len(resp[i].items) + 1]
         /\ gpc' = [gpc EXCEPT ![i] = "exit"]
         /\ sem' = Released
         /\ wg' = wg - 1

(* the range loop from item k on: up to the next mu.Lock(), or to the
   return when no further item passes the checks *)
Advance(i, k) ==
    IF NextKept(resp[i].items, k) <= Len(resp[i].items)
    THEN /\ idx' = [idx EXCEPT ![i] = NextKept(resp[i].items, k)]
         /\ gpc' = [gpc EXCEPT ![i] = "lockEv"]
         /\ UNCHANGED <<sem, wg>>
    ELSE /\ idx' = [idx EXCEPT ![i] = Len(resp[i].items) + 1]
         /\ gpc' = [gpc EXCEPT ![i] = "exit"]
         /\ sem' = Released
         /\ wg' = wg - 1

(* call.Do() returns a response *)
ReturnOK(i) ==
    /\ gpc[i] = "fetch"
    /\ Observed(i) = ""
    /\ Advance(i, 1)
    /\ UNCHANGED <<inputs, gerr, mainpc, spawned, mu, events, errors, warnings,
                   out, ret, din, dout>>

(* mu.Lock() of the event path *)
LockEv(i) ==
    /\ gpc[i] = "lockEv"
    /\ mu = 0
    /\ mu' = i
    /\ gpc' = [gpc EXCEPT ![i] = "appendEv"]
    /\ UNCHANGED <<inputs, gerr, mainpc, spawned, idx, sem, wg, events, errors,
                   warnings, out, ret, din, dout>>

(* events = append(events, teamEvent{...}); mu.Unlock(); next item *)
AppendEv(i) ==
    /\ gpc[i] = "appendEv"
    /\ mu = i
    /\ events' = Append(events, MakeTeamEvent(emails[i], resp[i].items[idx[i]]))
    /\ mu' = 0
    /\ Advance(i, idx[i] + 1)
    /\ UNCHANGED <<inputs, gerr, mainpc, spawned, errors, warnings, out, ret,
                   din, dout>>

(* wg.Wait() returns *)
Join ==
    /\ mainpc = "wait"
    /\ WaitOver
    /\ mainpc' = "warn"
    /\ UNCHANGED <<inputs, gerr, spawned, gpc, idx, shared, warnings, out, ret,
                   din, dout>>

(* for _, e := range errors { u.Err().Printf("Warning: %s\n", e) } *)
PrintWarnings ==
    /\ mainpc = "warn"
    /\ warnings' = [k \in 1..Len(errors) |-> <<"Warning: ">> \o errors[k] \o <<"\n">>]
    /\ mainpc' = "sort"
    /\ UNCHANGED <<inputs, gerr, spawned, gpc, idx, shared, out, ret, din, dout>>

(* sort.Slice(events, ...) *)
SortEvents ==
    /\ mainpc = "sort"
    /\ events' = SortSlice(events)
    /\ mainpc' = IF noDedup THEN "render" ELSE "dedup"
    /\ UNCHANGED <<inputs, gerr, spawned, gpc, idx, sem, mu, wg, errors, warnings,
                   out, ret, din, dout>>

(* events = dedupeTeamEvents(events) *)
Dedupe ==
    /\ mainpc = "dedup"
    /\ events' = dedupeTeamEvents(events)
    /\ mainpc' = "render"
    /\ UNCHANGED <<inputs, gerr, spawned, gpc, idx, sem, mu, wg, errors, warnings,
                   out, ret, din, dout>>

(* JSON or table output of events; return nil *)
(* a run that reports the first failed fetch as its own error *)
FailsOnWarnings == IF errors = <<>> THEN "nil" ELSE "fetch failed"

(* every return of runEvents past the fan-out is return nil (or the error of
   writing the output, which the model leaves out) *)
RenderResult == "nil"

Render ==
    /\ mainpc = "render"
    /\ out' = events
    /\ ret' = RenderResult
    /\ mainpc' = "done"
    /\ UNCHANGED <<inputs, gerr, spawned, gpc, idx, shared, warnings, din, dout>>

Next ==
    \/ Spawn
    \/ \E i \in Goroutines : Acquire(i)
    \/ \E i \in Goroutines : ReturnErr(i)
    \/ \E i \in Goroutines : LockErr(i)
    \/ \E i \in Goroutines : AppendErr(i)
    \/ \E i \in Goroutines : ReturnOK(i)
    \/ \E i \in Goroutines : LockEv(i)
    \/ \E i \in Goroutines : AppendEv(i)
    \/ Join
    \/ PrintWarnings
    \/ SortEvents
    \/ Dedupe
    \/ Render

-----------------------------------------------------------------------------
(* initial states *)
(* tracking.Config: the zero value of the struct *)
ZeroConfig ==
    [Enabled |-> FALSE, WorkerURL |-> <<>>, SecretsInKeyring |-> FALSE,
     TrackingKey |-> <<>>, AdminKey |-> <<>>]

(* a path at which os.ReadFile finds nothing (os.ErrNotExist) *)
Absent ==
    [exists |-> FALSE, valid |-> FALSE, accounts |-> <<>>, top |-> ZeroConfig]

(* neither SaveConfig nor LoadConfig has been called *)
NoCall == [account |-> <<>>, err |-> "none", cfg |-> ZeroConfig]

(* the tracking configuration is not part of the scenario *)
NoTracking ==
    /\ primaryFile = Absent
    /\ legacyFile = Absent
    /\ saved = NoCall
    /\ loaded = NoCall

(* Run is not part of the scenario *)
NoRun ==
    /\ runpc = "off"
    /\ group = <<>>
    /\ freeBusy = FALSE
    /\ world = <<>>
    /\ members = <<>>
    /\ calls = <<>>
    /\ runret = <<>>
    /\ stderr = <<>>
    /\ fbout = <<>>

(* runEvents is entered: nothing started, the buffers empty *)
Fresh ==
    /\ mainpc = "spawn"
    /\ spawned = 0
    /\ gpc = [i \in 1..Len(emails) |-> "idle"]
    /\ idx = [i \in 1..Len(emails) |-> 0]
    /\ sem = 0
    /\ mu = 0
    /\ wg = 0
    /\ events = <<>>
    /\ errors = <<>>
    /\ warnings = <<>>
    /\ out = <<>>
    /\ ret = ""
    /\ din = <<>>
    /\ dout = <<>>
    /\ cancelled = FALSE
    /\ gerr = [i \in 1..Len(emails) |-> ""]
    /\ NoRun
    /\ NoTracking

(* the same with the range resolved to UTC *)
Entered == loc = 0 /\ Fresh

Prefixes(n) == {SubSeq(AllEmails, 1, k) : k \in 1..n}

(* sequences of length at most n over S *)
SeqsUpTo(S, n) == UNION {[1..k -> S] : k \in 0..n}

DistinctIds(items) ==
    \A a, b \in 1..Len(items) : a # b => items[a].id # items[b].id

(* the meetings of the team scenarios: ev1 and ev3 start together *)
Standup == <<"S", "t", "a", "n", "d", "u", "p">>
OneOnOne == <<"B", "o", "b", "'", "s", " ", "1", ":", "1">>
Review == <<"R", "e", "v", "i", "e", "w">>

Timed(id, title, d, m1, m2) ==
    RawEvent(id, title, "", <<>>, TimeBlock(DT(d, m1, 0)), TimeBlock(DT(d, m2, 0)))

Ev1 == Timed("ev1", Standup, 5, 540, 570)
Ev2 == Timed("ev2", OneOnOne, 5, 840, 900)
Ev3 == Timed("ev3", Review, 5, 540, 600)

TeamItems == {Ev1, Ev2, Ev3}
(* OrderBy("startTime"): a response lists its items by start time; the
   scenarios list items that start together in the order Ev1, Ev3 *)
ByStartTime(items) ==
    \A a, b \in 1..Len(items) :
        a < b => /\ parseEventStart(items[a]) <= parseEventStart(items[b])
                 /\ ~(items[a].id = "ev3" /\ items[b].id = "ev1")

TeamCalendars ==
    {c \in SeqsUpTo(TeamItems, MaxItems) : DistinctIds(c) /\ ByStartTime(c)}
TeamResponses == {OkResp(c) : c \in TeamCalendars} \cup {ErrResp("403")}

Init ==
    /\ emails \in Prefixes(MaxMembers)
    /\ resp \in [1..Len(emails) -> TeamResponses]
    /\ query = <<>>
    /\ noDedup \in BOOLEAN
    /\ Entered

Spec == Init /\ [][Next]_vars

-----------------------------------------------------------------------------
(* a group larger than the semaphore: the first member's fetch fails, the
   calendars of the others are empty, so no goroutine reaches the event
   path and NextFan is Next without its two actions *)
InitFan ==
    /\ emails = SubSeq(AllEmails, 1, SemCap + FanExtra)
    /\ resp = [i \in 1..Len(emails) |->
                 IF i = 1 THEN ErrResp("403") ELSE OkResp(<<>>)]
    /\ query = <<>>
    /\ noDedup = FALSE
    /\ Entered

NextFan ==
    \/ Spawn
    \/ \E i \in Goroutines : Acquire(i)
    \/ \E i \in Goroutines : ReturnErr(i)
    \/ \E i \in Goroutines : LockErr(i)
    \/ \E i \in Goroutines : AppendErr(i)
    \/ \E i \in Goroutines : ReturnOK(i)
    \/ Join
    \/ PrintWarnings
    \/ SortEvents
    \/ Dedupe
    \/ Render

SpecFan == InitFan /\ [][NextFan]_vars

-----------------------------------------------------------------------------
(* filtering: alice's calendar holds any items of the catalogue, bob's
   calendar holds the public meeting ev1 *)
BusyDay == <<"B", "u", "s", "y">>

AttendeeLists ==
    { <<>>,
      <<Attendee(TRUE, "declined")>>,
      <<Attendee(FALSE, "declined"), Attendee(TRUE, "accepted")>>,
      <<Attendee(FALSE, "accepted"), Attendee(TRUE, "declined")>> }

FilterCatalogue ==
    { RawEvent(i, t, v, a, TimeBlock(DT(5, 540, 0)), TimeBlock(DT(5, 570, 0))) :
        i \in {"ev1", "ev4"}, t \in {Standup, BusyDay},
        v \in {"default", "private", "confidential"}, a \in AttendeeLists }
    \cup {NilEvent}

Queries ==
    { <<>>, <<"S", "T", "A", "N", "D">>, <<"b", "u", "s", "y">>, <<"u">>, <<"x">>,
      <<"s", " ", "u">> }

InitFilter ==
    /\ emails = <<"alice", "bob">>
    /\ resp \in {<<OkResp(c), OkResp(<<Ev1>>)>> : c \in SeqsUpTo(FilterCatalogue, FilterItems)}
    /\ query \in Queries
    /\ noDedup \in BOOLEAN
    /\ Entered

NextFilter ==
    \/ Spawn
    \/ \E i \in Goroutines : Acquire(i)
    \/ \E i \in Goroutines : ReturnOK(i)
    \/ \E i \in Goroutines : LockEv(i)
    \/ \E i \in Goroutines : AppendEv(i)
    \/ Join
    \/ PrintWarnings
    \/ SortEvents
    \/ Dedupe
    \/ Render

SpecFilter == InitFilter /\ [][NextFilter]_vars

-----------------------------------------------------------------------------
(* one calendar whose items differ in their start and end blocks, shown in
   several time zones *)
EventIds == <<"ev1", "ev2", "ev3", "ev4">>

(* offsets of tr.Location in minutes *)
Zones == {-300, 0, 120}

(* start and end blocks: none, all-day, timed in three zones, a dateTime
   or a date that does not parse *)
TimeShapes ==
    { <<NilBlock, NilBlock>>,
      <<NilBlock, TimeBlock(DT(5, 570, 0))>>,
      <<DateBlock(5), DateBlock(6)>>,
      <<TimeBlock(DT(5, 30, 120)), TimeBlock(DT(5, 90, 120))>>,
      <<TimeBlock(DT(5, 540, 0)), TimeBlock(DT(5, 570, 0))>>,
      <<TimeBlock(DT(5, 1410, -300)), TimeBlock(DT(6, 30, -300))>>,
      <<TimeBlock(BadDT), TimeBlock(DT(5, 570, 0))>>,
      <<TimeBlock(DT(5, 540, 0)), TimeBlock(BadDT)>>,
      <<DateBlock(-1), DateBlock(6)>> }

TimeCalendars ==
    { [k \in 1..Len(shapes) |->
         RawEvent(EventIds[k], Review, "", <<>>, shapes[k][1], shapes[k][2])] :
        shapes \in SeqsUpTo(TimeShapes, MaxItems) \ {<<>>} }

InitTime ==
    /\ emails = <<"alice">>
    /\ resp \in {<<OkResp(c)>> : c \in TimeCalendars}
    /\ query = <<>>
    /\ noDedup \in BOOLEAN
    /\ loc \in Zones
    /\ Fresh

SpecTime == InitTime /\ [][NextFilter]_vars

-----------------------------------------------------------------------------
(* dedupeTeamEvents on its own: applied to a sorted list, then to its own
   result *)
DedupeOnce ==
    /\ mainpc = "call"
    /\ dout = <<>>
    /\ dout' = <<dedupeTeamEvents(din)>>
    /\ UNCHANGED <<inputs, gerr, mainpc, spawned, gpc, idx, shared, warnings, out,
                   ret, din>>

DedupeAgain ==
    /\ mainpc = "call"
    /\ Len(dout) = 1
    /\ dout' = Append(dout, dedupeTeamEvents(dout[1]))
    /\ UNCHANGED <<inputs, gerr, mainpc, spawned, gpc, idx, shared, warnings, out,
                   ret, din>>

TeamEntries ==
    { [Who |-> w, ID |-> i, Start |-> FormatClock(t, 0), End |-> EmptyString,
       Summary |-> Standup, Status |-> "confirmed", sortKey |-> t] :
        w \in {<<"alice">>, <<"bob">>, <<"alice", ", ", "bob">>},
        i \in {"ev1", "ev2"}, t \in {7740, 8040} }

InitDedup ==
    /\ din \in {l \in SeqsUpTo(TeamEntries, MaxLen) : NonDecreasing(l)}
    /\ dout = <<>>
    /\ emails = <<>>
    /\ resp = <<>>
    /\ query = <<>>
    /\ noDedup = FALSE
    /\ loc = 0
    /\ mainpc = "call"
    /\ spawned = 0
    /\ gpc = <<>>
    /\ idx = <<>>
    /\ sem = 0
    /\ mu = 0
    /\ wg = 0
    /\ events = <<>>
    /\ errors = <<>>
    /\ warnings = <<>>
    /\ out = <<>>
    /\ ret = ""
    /\ cancelled = FALSE
    /\ gerr = <<>>
    /\ NoRun
    /\ NoTracking

NextDedup == DedupeOnce \/ DedupeAgain

SpecDedup == InitDedup /\ [][NextDedup]_vars

-----------------------------------------------------------------------------
(* cancellation of ctx during the fan-out *)

(* the caller cancels ctx while runEvents is spawning or waiting *)
Cancel ==
    /\ ~cancelled
    /\ mainpc \in {"spawn", "wait"}
    /\ cancelled' = TRUE
    /\ UNCHANGED <<emails, resp, query, noDedup, loc, outer, disk, gerr, mainpc,
                   spawned, gpc, idx, shared, warnings, out, ret, din, dout>>

(* the steps of runEvents and its goroutines up to the return of wg.Wait() *)
FanOutStep ==
    \/ Spawn
    \/ \E i \in Goroutines : Acquire(i)
    \/ \E i \in Goroutines : ReturnErr(i)
    \/ \E i \in Goroutines : LockErr(i)
    \/ \E i \in Goroutines : AppendErr(i)
    \/ \E i \in Goroutines : ReturnOK(i)
    \/ Join

NextCancel ==
    \/ Spawn
    \/ \E i \in Goroutines : Acquire(i)
    \/ \E i \in Goroutines : ReturnErr(i)
    \/ \E i \in Goroutines : LockErr(i)
    \/ \E i \in Goroutines : AppendErr(i)
    \/ \E i \in Goroutines : ReturnOK(i)
    \/ Join
    \/ Cancel

(* calendars without events, answered at once or still outstanding when a
   cancellation is noticed, and a refused request *)
CancelResponses == {OkResp(<<>>), SlowResp(OkResp(<<>>)), ErrResp("403")}

(* every goroutine is started, the first SemCap of them hold the slots of
   the semaphore with their requests issued, the others wait for a slot *)
SemaphoreFull ==
    /\ loc = 0
    /\ mainpc = "wait"
    /\ spawned = N
    /\ gpc = [i \in 1..N |-> IF i <= SemCap THEN "fetch" ELSE "sem"]
    /\ idx = [i \in 1..N |-> 0]
    /\ sem = SemCap
    /\ mu = 0
    /\ wg = N
    /\ events = <<>>
    /\ errors = <<>>
    /\ warnings = <<>>
    /\ out = <<>>
    /\ ret = ""
    /\ din = <<>>
    /\ dout = <<>>
    /\ cancelled = FALSE
    /\ gerr = [i \in 1..N |-> ""]
    /\ NoRun
    /\ NoTracking

(* a small team from the entry of runEvents, and a team larger than the
   semaphore from the point where the semaphore is full *)
InitCancel ==
    /\ query = <<>>
    /\ noDedup = FALSE
    /\ \/ /\ emails \in Prefixes(MaxMembers)
          /\ resp \in [1..Len(emails) -> CancelResponses]
          /\ Entered
       \/ /\ emails = SubSeq(AllEmails, 1, SemCap + FanExtra)
          /\ resp = [i \in 1..Len(emails) |->
                       IF i = 1 THEN SlowResp(OkResp(<<>>)) ELSE OkResp(<<>>)]
          /\ SemaphoreFull

(* the scheduler runs a goroutine that can take a step, and every issued
   fetch returns *)
SpecCancel == InitCancel /\ [][NextCancel]_vars /\ WF_vars(FanOutStep)

-----------------------------------------------------------------------------
(* CalendarTeamCmd.Run and runFreeBusy *)

WhiteSpace == {" ", "\t", "\n"}

(* an argument returned as it was given *)
Untrimmed(s) == s

RECURSIVE TrimLeft(_)
TrimLeft(s) ==
    IF s # <<>> /\ Head(s) \in WhiteSpace THEN TrimLeft(Tail(s)) ELSE s

RECURSIVE TrimRight(_)
TrimRight(s) ==
    IF s # <<>> /\ s[Len(s)] \in WhiteSpace
    THEN TrimRight(SubSeq(s, 1, Len(s) - 1)) ELSE s

(* strings.TrimSpace *)
TrimSpace(s) == TrimRight(TrimLeft(s))

(* the characters of a member identifier: the identifiers of LocalIds are
   bare, the others are addresses *)
LocalIds == {"c0123"}
Spelling(id) == IF id \in LocalIds THEN <<id>> ELSE <<id, "@", "example.com">>

(* the entries of membersResp.Memberships *)
NilMembership == [isNil |-> TRUE, keyNil |-> FALSE, id |-> "", type |-> ""]
NoKeyMembership == [isNil |-> FALSE, keyNil |-> TRUE, id |-> "", type |-> "USER"]
Membership(t, id) == [isNil |-> FALSE, keyNil |-> FALSE, id |-> id, type |-> t]

(* a loop that takes every membership that has a key *)
AnyKeyed(m) == ~(m.isNil \/ m.keyNil)

(* m is appended to memberEmails *)
IsQueried(m) ==
    /\ ~(m.isNil \/ m.keyNil)
    /\ m.type = "USER"
    /\ Contains(Spelling(m.id), <<"@">>)

(* for _, m := range membersResp.Memberships { ... } *)
RECURSIVE memberEmailsOf(_)
memberEmailsOf(ms) ==
    IF ms = <<>> THEN <<>>
    ELSE (IF IsQueried(Head(ms)) THEN <<Head(ms).id>> ELSE <<>>)
         \o memberEmailsOf(Tail(ms))

(* a list that is never taken for empty *)
NeverEmpty(list) == FALSE

(* len(...) == 0 *)
Empty(list) == Len(list) = 0

(* error values: the text as a sequence of pieces; Running while Run has
   not returned *)
Running == <<>>
NoError == <<"nil">>
usage(msg) == <<"usage: ", msg>>
Wrap(prefix, err) == <<prefix>> \o err

(* a call whose err is never looked at *)
NeverFails(step) == FALSE

(* the call made at the given step returns an error *)
Fails(step) == world.failAt = step

UpstreamError == <<world.err>>

(* wrapCloudIdentityError *)
wrapCloudIdentityError(err) ==
    IF \/ Contains(err, <<"accessNotConfigured">>)
       \/ Contains(err, <<"Cloud Identity API has not been used">>)
    THEN <<"cloud Identity API is not enabled (">> \o err \o <<")">>
    ELSE IF \/ Contains(err, <<"insufficientPermissions">>)
            \/ Contains(err, <<"insufficient authentication scopes">>)
    THEN <<"insufficient permissions for Cloud Identity API; Original error: ">> \o err
    ELSE err

Call(op, arg) == [op |-> op, arg |-> arg]

(* the variables of runEvents and its goroutines *)
fanout == <<emails, resp, mainpc, spawned, gpc, idx, sem, mu, wg, events,
            errors, warnings, out, ret, gerr>>
(* what Run only reads, and what belongs to other scenarios *)
given == <<group, freeBusy, world, query, noDedup, cancelled, din, dout,
           disk>>

(* return err *)
ReturnFromRun(err) ==
    /\ runret' = err
    /\ runpc' = "returned"

(* account, err := requireAccount(flags) *)
RequireAccount ==
    /\ runpc = "account"
    /\ IF Fails("account")
       THEN ReturnFromRun(UpstreamError)
       ELSE runpc' = "group" /\ UNCHANGED runret
    /\ UNCHANGED <<given, fanout, loc, members, calls, stderr, fbout>>

(* groupEmail := strings.TrimSpace(c.GroupEmail); the usage error *)
CheckGroup ==
    /\ runpc = "group"
    /\ IF TrimSpace(group) = <<>>
       THEN ReturnFromRun(usage("group email required"))
       ELSE runpc' = "calsvc" /\ UNCHANGED runret
    /\ UNCHANGED <<given, fanout, loc, members, calls, stderr, fbout>>

(* calSvc, err := newCalendarService(ctx, account) *)
NewCalendarService ==
    /\ runpc = "calsvc"
    /\ calls' = Append(calls, Call("newCalendarService", <<>>))
    /\ IF Fails("calsvc")
       THEN ReturnFromRun(Wrap("calendar service: ", UpstreamError))
       ELSE runpc' = "tr" /\ UNCHANGED runret
    /\ UNCHANGED <<given, fanout, loc, members, stderr, fbout>>

(* tr, err := ResolveTimeRange(ctx, calSvc, c.TimeRangeFlags) *)
ResolveTimeRange ==
    /\ runpc = "tr"
    /\ calls' = Append(calls, Call("ResolveTimeRange", <<>>))
    /\ IF Fails("tr")
       THEN ReturnFromRun(UpstreamError) /\ UNCHANGED loc
       ELSE runpc' = "cloudsvc" /\ loc' = world.loc /\ UNCHANGED runret
    /\ UNCHANGED <<given, fanout, members, stderr, fbout>>

(* cloudSvc, err := newCloudIdentityService(ctx, account) *)
NewCloudIdentityService ==
    /\ runpc = "cloudsvc"
    /\ calls' = Append(calls, Call("newCloudIdentityService", <<>>))
    /\ IF Fails("cloudsvc")
       THEN ReturnFromRun(wrapCloudIdentityError(UpstreamError))
       ELSE runpc' = "lookup" /\ UNCHANGED runret
    /\ UNCHANGED <<given, fanout, loc, members, stderr, fbout>>

(* groupName, err := lookupGroupByEmail(ctx, cloudSvc, groupEmail) *)
LookupGroup ==
    /\ runpc = "lookup"
    /\ calls' = Append(calls, Call("Groups.Lookup", TrimSpace(group)))
    /\ IF Fails("lookup")
       THEN ReturnFromRun(<<"failed to find group ">> \o TrimSpace(group)
                            \o <<": ">> \o UpstreamError)
       ELSE runpc' = "list" /\ UNCHANGED runret
    /\ UNCHANGED <<given, fanout, loc, members, stderr, fbout>>

(* cloudSvc.Groups.Memberships.List(groupName)...Do(), and the return when
   the group has no memberships *)
ListMemberships ==
    /\ runpc = "list"
    /\ calls' = Append(calls, Call("Memberships.List", <<>>))
    /\ IF Fails("list")
       THEN /\ ReturnFromRun(Wrap("failed to list group members: ", UpstreamError))
            /\ UNCHANGED stderr
       ELSE IF Empty(world.memberships)
       THEN /\ stderr' = Append(stderr, <<"No members in group ">> \o TrimSpace(group))
            /\ ReturnFromRun(NoError)
       ELSE runpc' = "extract" /\ UNCHANGED <<runret, stderr>>
    /\ UNCHANGED <<given, fanout, loc, members, fbout>>

(* the fan-out of runEvents starts over the given members *)
EnterRunEvents(list) ==
    /\ emails' = list
    /\ resp' = [i \in 1..Len(list) |-> world.calendars[list[i]]]
    /\ gpc' = [i \in 1..Len(list) |-> "idle"]
    /\ idx' = [i \in 1..Len(list) |-> 0]
    /\ gerr' = [i \in 1..Len(list) |-> ""]
    /\ mainpc' = "spawn"

(* the loop that fills memberEmails, the return when it stays empty, and
   the branch on c.FreeBusy *)
ExtractMembers ==
    /\ runpc = "extract"
    /\ members' = memberEmailsOf(world.memberships)
    /\ IF Empty(members')
       THEN /\ stderr' = Append(stderr, <<"No user members in group ">> \o TrimSpace(group))
            /\ ReturnFromRun(NoError)
            /\ UNCHANGED fanout
       ELSE IF freeBusy
       THEN /\ runpc' = "freebusy"
            /\ UNCHANGED <<runret, stderr, fanout>>
       ELSE /\ runpc' = "events"
            /\ EnterRunEvents(members')
            /\ UNCHANGED <<runret, stderr, spawned, sem, mu, wg, events, errors,
                           warnings, out, ret>>
    /\ UNCHANGED <<given, loc, calls, fbout>>

(* return c.runEvents(...) *)
ReturnFromEvents ==
    /\ runpc = "events"
    /\ mainpc = "done"
    /\ ReturnFromRun(IF ret = "nil" THEN NoError ELSE <<ret>>)
    /\ UNCHANGED <<given, fanout, loc, members, calls, stderr, fbout>>

(* a request that names the first member only *)
FirstItemOnly(list) == <<list[1]>>

(* items[i] = &calendar.FreeBusyRequestItem{Id: email} *)
QueryItems(list) == list

(* resp, err := svc.Freebusy.Query(...).Context(ctx).Do() *)
QueryFreeBusy ==
    /\ runpc = "freebusy"
    /\ calls' = Append(calls, Call("Freebusy.Query", QueryItems(members)))
    /\ IF Fails("freebusy")
       THEN ReturnFromRun(Wrap("freebusy query: ", UpstreamError))
       ELSE runpc' = "results" /\ UNCHANGED runret
    /\ UNCHANGED <<given, fanout, loc, members, stderr, fbout>>

(* a busy interval and the calendar of one member in the response *)
Busy(s, e) == [start |-> s, end |-> e]
BusyCalendar(b, e) == [busy |-> b, errors |-> e]

(* a lookup that finds every member *)
AlwaysInResponse(email) == TRUE

(* cal, ok := resp.Calendars[email]: a missing key gives the zero value *)
InResponse(email) == email \in DOMAIN world.fb
CalendarFor(email) ==
    IF email \in DOMAIN world.fb THEN world.fb[email] ELSE BusyCalendar(<<>>, <<>>)

(* start, _ := time.Parse(time.RFC3339, ...): the zero time on an error *)
ParseOrZero(dt) == IF ParsesRFC3339(dt) THEN InstantOfRFC3339(dt) ELSE ZeroTime

(* fmt.Sprintf("%s-%s", start.In(tr.Location).Format("15:04"), ...) *)
BusyString(b, l) ==
    FormatClock(ParseOrZero(b.start), l) \o <<"-">> \o FormatClock(ParseOrZero(b.end), l)

busyResult(email, cal, l) ==
    [Email |-> email,
     Busy |-> [k \in 1..Len(cal.busy) |-> BusyString(cal.busy[k], l)],
     Errors |-> cal.errors]

(* for _, email := range emails { ... results = append(results, result) } *)
RECURSIVE BusyResults(_, _)
BusyResults(list, l) ==
    IF list = <<>> THEN <<>>
    ELSE (IF InResponse(Head(list))
          THEN <<busyResult(Head(list), CalendarFor(Head(list)), l)>>
          ELSE <<>>)
         \o BusyResults(Tail(list), l)

(* the results are built and written, as JSON or as a table *)
RenderFreeBusy ==
    /\ runpc = "results"
    /\ fbout' = Append(fbout, BusyResults(members, loc))
    /\ ReturnFromRun(NoError)
    /\ UNCHANGED <<given, fanout, loc, members, calls, stderr>>

NextRun ==
    \/ RequireAccount
    \/ CheckGroup
    \/ NewCalendarService
    \/ ResolveTimeRange
    \/ NewCloudIdentityService
    \/ LookupGroup
    \/ ListMemberships
    \/ ExtractMembers
    \/ QueryFreeBusy
    \/ RenderFreeBusy
    \/ ReturnFromEvents
    \/ Next

(* bounds of the Run scenarios *)
MaxMemberships == 2
MaxBusy == 2

Groups == {<<>>, <<" ">>, <<"\t", " ">>, <<" ", "eng", " ">>, <<"eng">>}

MemberCatalogue ==
    {Membership("USER", "alice"), Membership("USER", "bob"),
     Membership("GROUP", "leads"), Membership("USER", "c0123"),
     NilMembership, NoKeyMembership}

(* a directory lists a member once *)
Directories ==
    {ms \in SeqsUpTo(MemberCatalogue, MaxMemberships) :
        \A j, k \in 1..Len(ms) :
            (j < k /\ ms[j].id # "") => ms[j].id # ms[k].id}

FailPoints == {"account", "calsvc", "tr", "cloudsvc", "lookup", "list", "freebusy"}
UpstreamErrors == {"503", "accessNotConfigured", "insufficientPermissions"}

(* what Events.List answers for each identifier *)
Calendars ==
    [id \in {"alice", "bob", "leads", "c0123"} |->
        IF id = "alice" THEN OkResp(<<Ev1>>)
        ELSE IF id = "bob" THEN ErrResp("403")
        ELSE OkResp(<<>>)]

(* the busy blocks of a working day, one more each hour; BadDT does not
   parse *)
BusyBlocks ==
    [k \in 1..(MaxBusy + 1) |->
        IF k = 1 THEN Busy(DT(5, 540, 0), DT(5, 600, 0))
        ELSE IF k = 2 THEN Busy(DT(5, 780, 60), BadDT)
        ELSE Busy(DT(5, 540 + 60 * k, 0), DT(5, 570 + 60 * k, 0))]

BusyCalendars ==
    {BusyCalendar(SubSeq(BusyBlocks, 1, k), <<>>) : k \in 0..MaxBusy}
      \cup {BusyCalendar(<<>>, <<"notFound">>)}

FreeBusyResponses ==
    UNION {[D -> BusyCalendars] : D \in SUBSET {"alice", "bob"}}

AliceBusy == [id \in {"alice"} |-> BusyCalendar(SubSeq(BusyBlocks, 1, 1), <<>>)]

(* memberships is the Memberships field of the response to
   Memberships.List; rest is what the directory holds behind its
   NextPageToken *)
World(f, e, l, ms, fb) ==
    [failAt |-> f, err |-> e, loc |-> l, memberships |-> ms, rest |-> <<>>,
     calendars |-> Calendars, fb |-> fb]

(* a group that does not fit one page *)
Paged(w, further) == [w EXCEPT !.rest = further]

(* Run is called: nothing done yet, runEvents not entered *)
RunCalled ==
    /\ runpc = "account"
    /\ members = <<>>
    /\ calls = <<>>
    /\ runret = Running
    /\ stderr = <<>>
    /\ fbout = <<>>
    /\ emails = <<>>
    /\ resp = <<>>
    /\ query = <<>>
    /\ noDedup = FALSE
    /\ loc = 0
    /\ mainpc = "idle"
    /\ spawned = 0
    /\ gpc = <<>>
    /\ idx = <<>>
    /\ gerr = <<>>
    /\ sem = 0
    /\ mu = 0
    /\ wg = 0
    /\ events = <<>>
    /\ errors = <<>>
    /\ warnings = <<>>
    /\ out = <<>>
    /\ ret = ""
    /\ din = <<>>
    /\ dout = <<>>
    /\ cancelled = FALSE
    /\ NoTracking

TwoUsers == <<Membership("USER", "alice"), Membership("USER", "bob")>>

InitRun ==
    /\ \/ /\ group \in Groups
          /\ freeBusy \in BOOLEAN
          /\ world \in {World(f, e, 0, TwoUsers, AliceBusy) :
                           f \in FailPoints, e \in UpstreamErrors}
       \/ /\ group \in Groups
          /\ freeBusy \in BOOLEAN
          /\ world \in {World("none", "", 0, ms, AliceBusy) : ms \in Directories}
       \/ /\ group = <<"eng">>
          /\ freeBusy = TRUE
          /\ world \in {World("none", "", l, ms, fb) :
                           l \in {0, 60},
                           ms \in {TwoUsers, <<TwoUsers[2], TwoUsers[1]>>},
                           fb \in FreeBusyResponses}
       \/ /\ group = <<"eng">>
          /\ freeBusy \in BOOLEAN
          /\ world \in {Paged(World("none", "", 0, SubSeq(TwoUsers, 1, k), AliceBusy),
                               SubSeq(TwoUsers, k + 1, Len(TwoUsers))) :
                           k \in 1..(Len(TwoUsers) - 1)}
    /\ RunCalled

SpecRun == InitRun /\ [][NextRun]_vars

-----------------------------------------------------------------------------
(* vocabulary of the properties *)
Done == mainpc = "done"

Failed == {i \in Goroutines : resp[i].err # ""}

(* the member names of a who string, without the separators *)
Names(who) == SelectSeq(who, LAMBDA t : t # ", ")

RECURSIVE CountIn(_, _)
CountIn(s, x) ==
    IF s = <<>> THEN 0
    ELSE (IF Head(s) = x THEN 1 ELSE 0) + CountIn(Tail(s), x)

(* how often the entries of evs with the given id name a member *)
RECURSIVE NamedFor(_, _, _)
NamedFor(evs, name, id) ==
    IF evs = <<>> THEN 0
    ELSE (IF Head(evs).ID = id THEN CountIn(Names(Head(evs).Who), name) ELSE 0)
         + NamedFor(Tail(evs), name, id)

Ids(evs) == {evs[k].ID : k \in 1..Len(evs)}

WithId(evs, id) == SelectSeq(evs, LAMBDA e : e.ID = id)

(* the who strings of a list joined by ", " *)
RECURSIVE JoinWho(_)
JoinWho(evs) ==
    IF evs = <<>> THEN <<>>
    ELSE IF Len(evs) = 1 THEN evs[1].Who
    ELSE evs[1].Who \o <<", ">> \o JoinWho(Tail(evs))

-----------------------------------------------------------------------------
(* C2: with dedup enabled the dedup step leaves exactly one entry per id,
   and the who of that entry is the who fields of the entries of that id in
   the sorted list, in their order there, joined by ", "; the entry is what
   is rendered. *)
C2_MergeCorrect ==
    [][(mainpc = "dedup" /\ mainpc' # "dedup") =>
         /\ Ids(events') = Ids(events)
         /\ \A id \in Ids(events) :
              /\ Len(WithId(events', id)) = 1
              /\ WithId(events', id)[1].Who = JoinWho(WithId(events, id))]_vars

C2_Witness ==
    /\ Done
    /\ ~noDedup
    /\ Failed = {}
    /\ \E k \in 1..Len(out) :
         out[k].ID = "ev1" /\ out[k].Who = <<"bob", ", ", "alice">>

(* the buffer when the goroutines run one after the other in member order *)
RECURSIVE KeptOf(_, _)
KeptOf(email, items) ==
    IF items = <<>> THEN <<>>
    ELSE (IF Keep(Head(items)) THEN <<MakeTeamEvent(email, Head(items))>> ELSE <<>>)
         \o KeptOf(email, Tail(items))

RECURSIVE InOrderBuffer(_)
InOrderBuffer(k) ==
    IF k > N THEN <<>>
    ELSE KeptOf(emails[k], resp[k].items) \o InOrderBuffer(k + 1)

InOrderOutput ==
    IF noDedup THEN SortSlice(InOrderBuffer(1))
    ELSE dedupeTeamEvents(SortSlice(InOrderBuffer(1)))

(* C3: for fixed fetch results the output is the same for every completion
   order, that is, it is the output of the run in which the members append
   in list order. *)
C3_OutputIndependentOfCompletionOrder == Done => out = InOrderOutput

AliceBob ==
    /\ emails = <<"alice", "bob">>
    /\ resp = <<OkResp(<<Ev1>>), OkResp(<<Ev1, Ev2>>)>>

Shown(e) == [who |-> e.Who, id |-> e.ID]

(* C4: alice has ev1, bob has ev1 and ev2, dedup enabled: the output is
   ev1 with who "alice, bob", then ev2 with who "bob". *)
C4_AliceBobDedup ==
    (Done /\ AliceBob /\ ~noDedup) =>
        [k \in 1..Len(out) |-> Shown(out[k])] =
            << [who |-> <<"alice", ", ", "bob">>, id |-> "ev1"],
               [who |-> <<"bob">>, id |-> "ev2"] >>

(* C5: the same input with --no-dedup: the output is ev1 (alice),
   ev1 (bob), ev2 (bob). *)
C5_AliceBobNoDedup ==
    (Done /\ AliceBob /\ noDedup) =>
        [k \in 1..Len(out) |-> Shown(out[k])] =
            << [who |-> <<"alice">>, id |-> "ev1"],
               [who |-> <<"bob">>, id |-> "ev1"],
               [who |-> <<"bob">>, id |-> "ev2"] >>

(* C6: the rendered list is in non-decreasing order of sortKey, with dedup
   enabled or disabled. *)
C6_OutputSorted == Done => NonDecreasing(out)

C6_Witness ==
    /\ Done
    /\ ~noDedup
    /\ Len(out) >= 2
    /\ out[1].sortKey < out[Len(out)].sortKey
    /\ \E k \in 1..Len(out) : Len(out[k].Who) > 1

(* the (member, id) pairs the given list attributes *)
Attributed(evs) ==
    UNION {{<<Names(evs[k].Who)[j], evs[k].ID>> : j \in 1..Len(Names(evs[k].Who))}
             : k \in 1..Len(evs)}

RECURSIVE TotalNames(_)
TotalNames(evs) ==
    IF evs = <<>> THEN 0 ELSE Len(Names(Head(evs).Who)) + TotalNames(Tail(evs))

RECURSIVE SumOver(_, _)
SumOver(S, f) ==
    IF S = {} THEN 0
    ELSE LET x == CHOOSE y \in S : TRUE IN f[x] + SumOver(S \ {x}, f)

(* C7: when exactly one member's fetch fails, the output attributes to the
   other members exactly their items (every item of the team scenarios
   passes the filters), one warning "<member>: <error>" is printed for the
   failed member, and runEvents returns nil. *)
C7_PartialFailure ==
    (Done /\ Cardinality(Failed) = 1) =>
        LET f == CHOOSE i \in Failed : TRUE
            ok == Goroutines \ {f}
        IN /\ ret = "nil"
           /\ warnings = << <<"Warning: ", emails[f], ": ", resp[f].err, "\n">> >>
           /\ Attributed(out) =
                UNION {{<<emails[i], resp[i].items[k].id>> : k \in 1..Len(resp[i].items)}
                         : i \in ok}
           /\ TotalNames(out) = SumOver(ok, [i \in ok |-> Len(resp[i].items)])

C7_Witness ==
    /\ Done
    /\ Cardinality(Failed) = 1
    /\ N >= 2
    /\ Len(out) >= 2
    /\ Len(warnings) = 1

-----------------------------------------------------------------------------
(* C1: at most 10 Events.List calls are in flight at any time, for a group
   of more than 10 members and every interleaving. *)
C1_AtMostTenInFlight == Cardinality(InFlight) <= 10

C1_Witness ==
    /\ N > 10
    /\ Cardinality(InFlight) = 10
    /\ \E i \in Goroutines : gpc[i] = "sem"

-----------------------------------------------------------------------------
SelfDeclined(it) ==
    \E k \in 1..Len(it.attendees) : it.attendees[k] = Attendee(TRUE, "declined")

Hidden(it) == it.visibility \in {"private", "confidential"}

TitleMatches(it) == Contains(ToLower(it.summary), ToLower(query))

SentinelMatches == Contains(BusySentinel, ToLower(query))

AliceItems == {resp[1].items[k] : k \in 1..Len(resp[1].items)}

(* the items of alice's calendar that are alone there with their id *)
AliceOnly(it) ==
    /\ ~it.isNil
    /\ Cardinality({k \in 1..Len(resp[1].items) : resp[1].items[k].id = it.id}) = 1

Appears(name, id) == NamedFor(out, name, id) > 0

(* C8 as stated: a private or confidential event whose real title matches
   the supplied query is not in the output. *)
C8_HiddenNeverMatches ==
    Done => \A it \in AliceItems :
        (AliceOnly(it) /\ Hidden(it) /\ ~SelfDeclined(it)
           /\ query # <<>> /\ TitleMatches(it))
        => ~Appears("alice", it.id)

(* C8 amended: a private or confidential event is in the output exactly
   when no query is supplied or the lower-cased query occurs in "(busy)",
   whatever its title; with --no-dedup its entry shows "(busy)". *)
C8_HiddenFilteredOnSentinel ==
    Done => \A it \in AliceItems :
        (AliceOnly(it) /\ Hidden(it) /\ ~SelfDeclined(it))
        => /\ Appears("alice", it.id) <=> (query = <<>> \/ SentinelMatches)
           /\ noDedup =>
                \A k \in 1..Len(out) :
                    (out[k].Who = <<"alice">> /\ out[k].ID = it.id)
                    => out[k].Summary = BusySentinel

C8_Witness ==
    /\ Done
    /\ \E it \in AliceItems :
         /\ AliceOnly(it) /\ Hidden(it) /\ ~SelfDeclined(it)
         /\ query # <<>> /\ TitleMatches(it) /\ ~SentinelMatches
         /\ ~Appears("alice", it.id)

(* C9: a copy that its owner declined is never added to the buffer: at any
   time the buffer and the output name a member for an id at most as often
   as the member's calendar holds copies of that id that are not declined. *)
Undeclined(i, id) ==
    Cardinality({k \in 1..Len(resp[i].items) :
                   /\ ~resp[i].items[k].isNil
                   /\ resp[i].items[k].id = id
                   /\ ~SelfDeclined(resp[i].items[k])})

C9_DeclinedNeverBuffered ==
    \A i \in Goroutines : \A id \in {"ev1", "ev4"} :
        /\ NamedFor(events, emails[i], id) <= Undeclined(i, id)
        /\ NamedFor(out, emails[i], id) <= Undeclined(i, id)

C9_Witness ==
    /\ Done
    /\ \E it \in AliceItems :
         /\ it.id = "ev1" /\ SelfDeclined(it) /\ ~Hidden(it)
         /\ TitleMatches(it)
         /\ Undeclined(1, "ev1") = 0
    /\ \E k \in 1..Len(out) : out[k].ID = "ev1" /\ out[k].Who = <<"bob">>

(* C10: on a list sorted by start, dedupeTeamEvents applied to its own
   result changes nothing. *)
C10_DedupeIdempotent == Len(dout) = 2 => dout[2] = dout[1]

C10_Witness ==
    /\ Len(dout) = 2
    /\ Len(dout[1]) < Len(din)
    /\ \E k \in 1..Len(dout[2]) : Len(dout[2][k].Who) > Len(din[1].Who)

(* C14: runEvents never returns an error once the fan-out is reached: it
   prints one warning per failed fetch and returns nil; when every fetch
   fails the warnings are as many as the members and the list is empty. *)
C14_FailuresNeverFatal ==
    /\ ret \in {"", "nil"}
    /\ Done =>
         /\ ret = "nil"
         /\ Len(warnings) = Cardinality(Failed)
         /\ (Failed = Goroutines => Len(warnings) = N /\ out = <<>>)

C14_Witness ==
    /\ Done
    /\ N = MaxMembers
    /\ Failed = Goroutines
    /\ Len(warnings) = N
    /\ ret = "nil"

(* s and t hold the same elements the same number of times *)
SameBag(s, t) ==
    /\ Len(s) = Len(t)
    /\ \A k \in 1..Len(s) : CountIn(s, s[k]) = CountIn(t, s[k])

(* the error strings of the failed members, in member order *)
RECURSIVE ErrorsOf(_)
ErrorsOf(k) ==
    IF k > N THEN <<>>
    ELSE (IF k \in Failed THEN <<FormatError(emails[k], resp[k].err)>> ELSE <<>>)
         \o ErrorsOf(k + 1)

Joined == mainpc \notin {"spawn", "wait"}

(* C19: when wg.Wait() has returned, whatever the interleaving was, the
   events buffer holds exactly the events that pass the filters of every
   member whose fetch succeeded, each as often as it was returned, and the
   errors buffer holds exactly one entry for each member whose fetch
   failed and none for the others. *)
C19_BuffersComplete ==
    mainpc = "warn" =>
        /\ SameBag(events, InOrderBuffer(1))
        /\ SameBag(errors, ErrorsOf(1))
        /\ \A i \in Goroutines :
             Cardinality({k \in 1..Len(errors) : errors[k][1] = emails[i]})
               = IF i \in Failed THEN 1 ELSE 0

C19_Witness ==
    /\ mainpc = "warn"
    /\ N = MaxMembers
    /\ Failed = {1}
    /\ Len(resp[2].items) = MaxItems
    /\ Len(events) = MaxItems
    /\ Len(errors) = 1

AllExited == \A i \in Goroutines : gpc[i] = "exit"

(* C20: printing the warnings, sorting, deduplicating and rendering start
   only when every goroutine has returned, and from then on no goroutine
   moves and nothing is appended to the events or the errors buffer. *)
C20_PostProcessingAfterJoin ==
    /\ [](Joined => AllExited)
    /\ [][Joined => /\ gpc' = gpc
                    /\ errors' = errors
                    /\ Len(events') <= Len(events)]_vars

C20_Witness ==
    /\ mainpc = "dedup"
    /\ N = MaxMembers
    /\ AllExited
    /\ Len(events) > 1
    /\ Len(errors) = 1

Returned == runpc = "returned"

IsError(r) == r \notin {Running, NoError}

(* the positions in calls of the requests of one kind *)
Ops(op) == {k \in 1..Len(calls) : calls[k].op = op}

(* the members for whom an Events.List request has been issued *)
EventsListIssued == {i \in Goroutines : gpc[i] \notin {"idle", "sem"}}

NoFetch == EventsListIssued = {} /\ Ops("Freebusy.Query") = {}

(* the identifiers of the memberships of type USER that contain "@", in
   directory order *)
UserAddresses ==
    LET keep == SelectSeq(world.memberships,
                          LAMBDA m : /\ ~m.isNil
                                     /\ ~m.keyNil
                                     /\ m.type = "USER"
                                     /\ \E k \in 1..Len(Spelling(m.id)) :
                                          Spelling(m.id)[k] = "@")
    IN [k \in 1..Len(keep) |-> keep[k].id]

(* C12: with --freebusy no Events.List request is ever issued and at most
   one Freebusy.Query, which names every resolved member; a run that
   resolved members has issued exactly one when it returns; when that
   query fails Run returns an error and nothing is rendered. *)
C12_OneFreeBusyQuery ==
    freeBusy =>
        /\ EventsListIssued = {}
        /\ Cardinality(Ops("Freebusy.Query")) <= 1
        /\ \A k \in Ops("Freebusy.Query") : calls[k].arg = UserAddresses
        /\ (Returned /\ members # <<>>) =>
             /\ Cardinality(Ops("Freebusy.Query")) = 1
             /\ IF world.failAt = "freebusy"
                THEN IsError(runret) /\ fbout = <<>> /\ out = <<>>
                ELSE runret = NoError /\ Len(fbout) = 1

C12_Witness ==
    /\ Returned
    /\ freeBusy
    /\ world.failAt = "freebusy"
    /\ calls # <<>>
    /\ calls[Len(calls)] = Call("Freebusy.Query", <<"alice", "bob">>)
    /\ runret = <<"freebusy query: ", "503">>
    /\ fbout = <<>>

(* C13: when the group lookup or the membership list call fails, no
   Events.List and no Freebusy.Query request is issued in the run, and Run
   returns the error of the failed call. *)
C13_DirectoryFailureIsFatal ==
    \A step \in {"lookup", "list"} :
        world.failAt = step =>
            /\ NoFetch
            /\ fbout = <<>> /\ out = <<>>
            /\ (Returned /\ Ops("Groups.Lookup") # {}) =>
                 /\ IsError(runret)
                 /\ runret[Len(runret)] = world.err
                 /\ calls[Len(calls)].op =
                      (IF step = "lookup" THEN "Groups.Lookup" ELSE "Memberships.List")

C13_Witness ==
    /\ Returned
    /\ world.failAt = "list"
    /\ Ops("Memberships.List") # {}
    /\ runret = <<"failed to list group members: ", "503">>
    /\ ~freeBusy

(* C15: when the membership list succeeds and holds no membership, or none
   of type USER with an address, no Events.List and no Freebusy.Query
   request is issued, and Run returns nil with nothing rendered. *)
C15_EmptyGroupIsNotAnError ==
    (Ops("Memberships.List") # {} /\ world.failAt # "list" /\ UserAddresses = <<>>) =>
        /\ NoFetch
        /\ Returned => /\ runret = NoError
                       /\ fbout = <<>> /\ out = <<>>
                       /\ Len(stderr) = 1

C15_Witness ==
    /\ Returned
    /\ runret = NoError
    /\ world.memberships = <<Membership("GROUP", "leads"), Membership("USER", "c0123")>>
    /\ stderr = << <<"No user members in group ", "eng">> >>
    /\ NoFetch

(* C16: the list Run hands to runEvents or runFreeBusy is exactly the
   identifiers of the memberships of type USER that contain "@", in
   directory order; no Events.List request and no Freebusy.Query item
   names anything else. *)
C16_OnlyUserAddressesQueried ==
    /\ runpc \in {"freebusy", "results", "events"} => members = UserAddresses
    /\ mainpc # "idle" => emails = UserAddresses
    /\ \A i \in EventsListIssued : \E k \in 1..Len(UserAddresses) : UserAddresses[k] = emails[i]
    /\ \A k \in Ops("Freebusy.Query") : calls[k].arg = UserAddresses

C16_Witness ==
    /\ runpc = "events"
    /\ world.memberships = <<Membership("GROUP", "leads"), Membership("USER", "alice")>>
    /\ emails = <<"alice">>
    /\ EventsListIssued = {1}

(* C17: the free/busy results hold one entry for each resolved member that
   the response has a calendar for, in member order and none for the
   others, and each entry holds one "start-end" string for each busy
   interval of that calendar, in order. *)
C17_FreeBusyEntries ==
    fbout # <<>> =>
        LET r == fbout[1]
            present == SelectSeq(members, LAMBDA e : e \in DOMAIN world.fb)
        IN /\ Len(fbout) = 1
           /\ [k \in 1..Len(r) |-> r[k].Email] = present
           /\ \A k \in 1..Len(r) :
                LET cal == world.fb[r[k].Email]
                IN /\ Len(r[k].Busy) = Len(cal.busy)
                   /\ \A j \in 1..Len(cal.busy) :
                        /\ Len(r[k].Busy[j]) = 5
                        /\ r[k].Busy[j][3] = "-"
                        /\ ParsesRFC3339(cal.busy[j].start) =>
                             SubSeq(r[k].Busy[j], 1, 2) =
                               <<"clock", (InstantOfRFC3339(cal.busy[j].start) + loc)
                                             % MinutesPerDay>>

C17_Witness ==
    /\ Returned
    /\ members = <<"bob", "alice">>
    /\ DOMAIN world.fb = {"alice"}
    /\ fbout # <<>>
    /\ Len(fbout[1]) = 1
    /\ fbout[1][1].Email = "alice"
    /\ Len(fbout[1][1].Busy) = MaxBusy

Blank(s) == \A k \in 1..Len(s) : s[k] \in WhiteSpace

(* C18: when c.GroupEmail is empty or only white space, Run creates no
   service and issues no request, and it returns an error: the usage error
   "group email required" whenever requireAccount gave an account (its
   own error otherwise, as requireAccount is called first). *)
C18_BlankGroupIsUsageError ==
    Blank(group) =>
        /\ calls = <<>>
        /\ NoFetch
        /\ Returned =>
             /\ IsError(runret)
             /\ world.failAt # "account" => runret = usage("group email required")

C18_Witness ==
    /\ Returned
    /\ group = <<"\t", " ">>
    /\ world.failAt = "calsvc"
    /\ runret = usage("group email required")
    /\ calls = <<>>

(* C11: once ctx is cancelled during the fan-out, every goroutine returns
   and wg.Wait() returns, whether a goroutine was in flight or still
   waiting for a slot of the semaphore at that moment. *)
C11_CancelledFanOutJoins == cancelled ~> (Joined /\ AllExited /\ sem = 0)

C11_Witness ==
    /\ cancelled
    /\ Joined
    /\ AllExited
    /\ N > SemCap
    /\ \E i \in Goroutines : ~resp[i].slow /\ gerr[i] = CtxErr
    /\ gerr[1] = CtxErr

(* the position of the first entry of evs with the given id *)
FirstPos(evs, id) ==
    CHOOSE k \in 1..Len(evs) :
        evs[k].ID = id /\ \A j \in 1..(k - 1) : evs[j].ID # id

(* C21: dedupeTeamEvents returns one entry for each id of its argument,
   in the order in which the ids first occur there; an entry is the first
   entry of its id, except for who, which is the who fields of all entries
   of that id joined in their order. *)
C21_FirstOccurrenceKept ==
    Len(dout) >= 1 =>
        LET r == dout[1]
        IN /\ Ids(r) = Ids(din)
           /\ \A j, k \in 1..Len(r) :
                j < k => FirstPos(din, r[j].ID) < FirstPos(din, r[k].ID)
           /\ \A k \in 1..Len(r) :
                /\ [r[k] EXCEPT !.Who = din[FirstPos(din, r[k].ID)].Who]
                     = din[FirstPos(din, r[k].ID)]
                /\ r[k].Who = JoinWho(WithId(din, r[k].ID))

C21_Witness ==
    /\ Len(dout) >= 1
    /\ Len(din) = MaxLen
    /\ Len(dout[1]) = 2
    /\ \E j, k \in 1..Len(din) :
         /\ j < k
         /\ din[j].ID = din[k].ID
         /\ din[j].sortKey # din[k].sortKey
         /\ \E i \in (j + 1)..(k - 1) : din[i].ID # din[j].ID

(* the entries are as the goroutines append them: one member each *)
SingleOwners(evs) == \A k \in 1..Len(evs) : Len(evs[k].Who) = 1

(* C22 as stated: in the result of dedupeTeamEvents no who field names a
   member more than once, also when two entries of one member carry the
   same id. *)
C22_WhoIsUnion ==
    (Len(dout) >= 1 /\ SingleOwners(din)) =>
        \A k \in 1..Len(dout[1]) :
            \A name \in {"alice", "bob"} :
                CountIn(Names(dout[1][k].Who), name) <= 1

(* member i has a copy of the id that reaches the buffer masked *)
MaskedFor(i, id) ==
    \E j \in 1..Len(resp[i].items) :
        LET it == resp[i].items[j]
        IN /\ ~it.isNil
           /\ it.id = id
           /\ Hidden(it)
           /\ ~SelfDeclined(it)
           /\ (query = <<>> \/ SentinelMatches)

(* C23 as stated: with dedup enabled, an output entry to which some member
   contributed a private or confidential copy shows "(busy)", whichever
   copy came first in the sorted list. *)
C23_MergedPrivateIsBusy ==
    (Done /\ ~noDedup) =>
        \A k \in 1..Len(out) :
            (\E i \in Goroutines : MaskedFor(i, out[k].ID))
            => out[k].Summary = BusySentinel

(* the position in the output of the entry with the given id *)
PosOf(id) == CHOOSE k \in 1..Len(out) : out[k].ID = id

Listed(id) == \E k \in 1..Len(out) : out[k].ID = id

Items(i) == {resp[i].items[k] : k \in 1..Len(resp[i].items)}

(* the start of an item is an instant: a dateTime or a date that parses *)
StartParses(it) ==
    /\ ~it.start.nil
    /\ \/ it.start.dateTime.day >= 1
       \/ (it.start.dateTime.day <= 0 /\ it.start.date >= 1)

(* the instant of a start that parses *)
StartInstant(it) ==
    IF it.start.dateTime.day >= 1
    THEN it.start.dateTime.day * MinutesPerDay + it.start.dateTime.min
           - it.start.dateTime.off
    ELSE it.start.date * MinutesPerDay

(* C24: an event without a start block is in the output with empty start
   and end strings and the zero time as sort key, and stands before every
   event whose start parses. *)
C24_NoStartSortsFirst ==
    Done => \A a \in Items(1) :
        a.start.nil =>
            /\ Listed(a.id)
            /\ out[PosOf(a.id)].Start = <<>>
            /\ out[PosOf(a.id)].End = <<>>
            /\ out[PosOf(a.id)].sortKey = ZeroTime
            /\ \A b \in Items(1) :
                 StartParses(b) => Listed(b.id) /\ PosOf(a.id) < PosOf(b.id)

C24_Witness ==
    /\ Done
    /\ Len(out) = 2
    /\ resp[1].items[1].start = TimeBlock(DT(5, 540, 0))
    /\ resp[1].items[2].start = NilBlock
    /\ resp[1].items[2].end # NilBlock
    /\ out[1].ID = "ev2"
    /\ out[1].sortKey = ZeroTime

AllDay(it) == ~it.start.nil /\ it.start.date >= 1

HasClock(it) == ~it.start.nil /\ it.start.date = 0 /\ it.start.dateTime.day >= 1

(* the calendar date in tr.Location on which a timed event starts *)
LocalDate(it) == (StartInstant(it) + loc) \div MinutesPerDay

(* C25 as stated: an all-day event stands before, or has the same sort key
   as, every timed event that starts on its date in the resolved time
   zone, whatever the offsets of the event and of the zone. *)
C25_AllDayFirstOnItsDate ==
    Done => \A a, b \in Items(1) :
        (AllDay(a) /\ HasClock(b) /\ LocalDate(b) = a.start.date) =>
            \/ PosOf(a.id) < PosOf(b.id)
            \/ out[PosOf(a.id)].sortKey = out[PosOf(b.id)].sortKey

DateTimeBad(block) == ~block.nil /\ block.dateTime.day < 0

(* C26: an event whose start or end dateTime does not parse is in the
   output, with the empty string for that field and, when it is the
   start, the zero time as sort key; the other events of the calendar are
   in the output too, no warning is printed and runEvents returns nil. *)
C26_UnparseableTimesTolerated ==
    Done => \A a \in Items(1) :
        (DateTimeBad(a.start) \/ (~a.start.nil /\ a.start.date = 0 /\ DateTimeBad(a.end))) =>
            /\ Listed(a.id)
            /\ DateTimeBad(a.start) =>
                 out[PosOf(a.id)].Start = <<>> /\ out[PosOf(a.id)].sortKey = ZeroTime
            /\ DateTimeBad(a.end) => out[PosOf(a.id)].End = <<>>
            /\ Len(out) = Len(resp[1].items)
            /\ warnings = <<>>
            /\ ret = "nil"

C26_Witness ==
    /\ Done
    /\ Len(out) = 2
    /\ DateTimeBad(resp[1].items[1].end)
    /\ DateTimeBad(resp[1].items[2].start)
    /\ out[1].ID = "ev2"
    /\ out[1].Start = <<>>
    /\ out[2].End = <<>>
    /\ out[2].Start # <<>>

(* what the query is compared with: "(busy)" for a private or confidential
   event, else the title, in lower case *)
ShownLower(it) == ToLower(IF Hidden(it) THEN BusySentinel ELSE it.summary)

(* s occurs in t as one piece *)
OccursIn(s, t) ==
    \E k \in 1..(Len(t) - Len(s) + 1) :
        \A j \in 1..Len(s) : t[k + j - 1] = s[j]

(* C27: an event that its owner did not decline is in the output exactly
   when the query is empty or the lower-cased query occurs as one piece in
   the lower-cased summary after masking. *)
C27_LiteralSubstringFilter ==
    Done => \A it \in AliceItems :
        (AliceOnly(it) /\ ~SelfDeclined(it)) =>
            (Appears("alice", it.id)
               <=> (query = <<>> \/ OccursIn(ToLower(query), ShownLower(it))))

C27_Witness ==
    /\ Done
    /\ query = <<"S", "T", "A", "N", "D">>
    /\ \E it \in AliceItems :
         /\ AliceOnly(it) /\ ~SelfDeclined(it) /\ ~Hidden(it)
         /\ it.id = "ev4"
         /\ it.summary = Standup
         /\ Appears("alice", "ev4")

(* the goroutines between their send to sem and their return *)
Holding ==
    {i \in Goroutines :
        gpc[i] \in {"fetch", "lockErr", "appendErr", "lockEv", "appendEv"}}

(* C28: the slots held are at all times as many as the goroutines between
   their send to sem and their return; a goroutine that returns, after a
   response or after an error, gives back one slot; when wg.Wait() has
   returned no slot is held. *)
C28_SlotsBalanced ==
    /\ [](sem = Cardinality(Holding) /\ (Joined => sem = 0))
    /\ [][\A i \in Goroutines :
            (i \in Holding /\ gpc'[i] = "exit") => sem' = sem - 1]_vars

C28_Witness ==
    /\ Joined
    /\ sem = 0
    /\ N = MaxMembers
    /\ Failed = {1}
    /\ Len(errors) = 1
    /\ Len(events) >= 1

(* the user addresses among all memberships of the group, on whichever
   page the directory returns them *)
GroupAddresses ==
    LET all == world.memberships \o world.rest
    IN {all[k].id : k \in {j \in 1..Len(all) :
                             /\ ~all[j].isNil
                             /\ ~all[j].keyNil
                             /\ all[j].type = "USER"
                             /\ \E c \in 1..Len(Spelling(all[j].id)) :
                                  Spelling(all[j].id)[c] = "@"}}

(* C29 as stated: when Run goes on to the fan-out or to the free/busy
   query, every user address of the group is in the member list, also when
   the directory holds memberships behind a next-page token. *)
C29_NoMemberMissed ==
    runpc \in {"freebusy", "results", "events"} =>
        \A a \in GroupAddresses : \E k \in 1..Len(members) : members[k] = a

-----------------------------------------------------------------------------
(* internal/tracking/config.go: the per-account tracking configuration.     *)
(*                                                                         *)
(* A file is the JSON document it holds: the object under "accounts" (a     *)
(* function from account keys to Config values, <<>> when the key is        *)
(* missing) and the Config fields at the top level of the document (the     *)
(* legacy single-config format; ZeroConfig when there are none).  valid is  *)
(* FALSE for bytes json.Unmarshal rejects.  Account names, URLs and keys    *)
(* are sequences of one-character tokens.                                   *)

(* the account arguments the callers pass *)
AccountNames == {<<"a">>, <<"b">>, <<"B">>, <<" ", "b">>, <<" ">>}

(* a configuration with its keys in the file, one with its keys in the
   keyring, and a disabled one *)
Plain ==
    [Enabled |-> TRUE, WorkerURL |-> <<"w">>, SecretsInKeyring |-> FALSE,
     TrackingKey |-> <<"t">>, AdminKey |-> <<"k">>]

InKeyring == [Plain EXCEPT !.SecretsInKeyring = TRUE]

Configs == {Plain, InKeyring, ZeroConfig}

(* a file in the legacy single-config format *)
LegacyFormat(cfg) ==
    [exists |-> TRUE, valid |-> TRUE, accounts |-> <<>>, top |-> cfg]

(* json.MarshalIndent of a fileConfig: only the "accounts" object *)
Marshal(accounts) ==
    [exists |-> TRUE, valid |-> TRUE, accounts |-> accounts,
     top |-> ZeroConfig]

(* a file that is not JSON *)
Corrupt ==
    [exists |-> TRUE, valid |-> FALSE, accounts |-> <<>>, top |-> ZeroConfig]

(* fileCfg.Accounts[account] = &toSave *)
Put(accounts, account, cfg) ==
    [k \in DOMAIN accounts \cup {account} |->
        IF k = account THEN cfg ELSE accounts[k]]

normalizeAccount(account) == ToLower(TrimSpace(account))

(* readConfigBytes: the file at ConfigPath(), else the one at
   legacyConfigPath(); exists = FALSE is the result (nil, false, nil) *)
readConfigBytes(primary, legacy) ==
    IF primary.exists THEN primary ELSE legacy

(* the keyring: only account b has secrets stored *)
LoadSecrets(account) ==
    IF account = <<"b">>
    THEN [trackingKey |-> <<"r", "t">>, adminKey |-> <<"r", "k">>]
    ELSE [trackingKey |-> <<>>, adminKey |-> <<>>]

hydrateConfig(account, cfg) ==
    IF \/ TrimSpace(cfg.TrackingKey) = <<>>
       \/ TrimSpace(cfg.AdminKey) = <<>>
       \/ cfg.SecretsInKeyring
    THEN [cfg EXCEPT
            !.TrackingKey = IF TrimSpace(@) = <<>>
                            THEN LoadSecrets(account).trackingKey ELSE @,
            !.AdminKey = IF TrimSpace(@) = <<>>
                         THEN LoadSecrets(account).adminKey ELSE @]
    ELSE cfg

(* what LoadConfig(account) returns when the two paths hold primary and
   legacy: the error ("nil" = none) and the configuration *)
loadConfig(primary, legacy, account) ==
    LET acct == normalizeAccount(account)
        data == readConfigBytes(primary, legacy)
    IN  IF acct = <<>>
        THEN [err |-> "missing account", cfg |-> ZeroConfig]
        ELSE IF ~data.exists
        THEN [err |-> "nil", cfg |-> ZeroConfig]
        ELSE IF data.valid /\ DOMAIN data.accounts # {}
        THEN IF acct \notin DOMAIN data.accounts
             THEN [err |-> "nil", cfg |-> ZeroConfig]
             ELSE [err |-> "nil",
                   cfg |-> hydrateConfig(acct, data.accounts[acct])]
        ELSE IF ~data.valid
        THEN [err |-> "parse tracking config", cfg |-> ZeroConfig]
        ELSE [err |-> "nil", cfg |-> hydrateConfig(acct, data.top)]

LoadConfig(account) ==
    /\ loaded' = [account |-> account,
                  err |-> loadConfig(primaryFile, legacyFile, account).err,
                  cfg |-> loadConfig(primaryFile, legacyFile, account).cfg]
    /\ UNCHANGED <<primaryFile, legacyFile, saved>>

(* SaveConfig(account, cfg); writable is whether config.EnsureDir and
   os.WriteFile succeed *)
SaveConfig(account, cfg, writable) ==
    LET acct == normalizeAccount(account)
        data == readConfigBytes(primaryFile, legacyFile)
        accounts == IF data.exists THEN data.accounts ELSE <<>>
        toSave == IF cfg.SecretsInKeyring
                  THEN [cfg EXCEPT !.TrackingKey = <<>>, !.AdminKey = <<>>]
                  ELSE cfg
        return(err) == saved' = [account |-> account, err |-> err, cfg |-> cfg]
    IN  /\ IF acct = <<>>
           THEN return("missing account") /\ UNCHANGED primaryFile
           ELSE IF data.exists /\ ~data.valid
           THEN return("parse tracking config") /\ UNCHANGED primaryFile
           ELSE IF ~writable
           THEN return("write tracking config") /\ UNCHANGED primaryFile
           ELSE /\ primaryFile' = Marshal(Put(accounts, acct, toSave))
                /\ return("nil")
        /\ UNCHANGED <<legacyFile, loaded>>

(* the variables of the team calendar, which the tracking package leaves
   alone *)
calendar == <<emails, resp, query, noDedup, loc, mainpc, spawned, gpc, idx,
              shared, warnings, out, ret, din, dout, cancelled, gerr, outer>>

NextTracking ==
    \/ \E account \in AccountNames, cfg \in Configs, writable \in BOOLEAN :
          SaveConfig(account, cfg, writable) /\ UNCHANGED calendar
    \/ \E account \in AccountNames :
          LoadConfig(account) /\ UNCHANGED calendar

(* the files an installation can hold before the first call *)
InitialFiles ==
    {Absent, Corrupt, LegacyFormat(Plain), LegacyFormat(InKeyring),
     Marshal(Put(<<>>, <<"b">>, Plain))}

InitTracking ==
    /\ primaryFile \in InitialFiles
    /\ legacyFile \in InitialFiles
    /\ saved = NoCall
    /\ loaded = NoCall
    /\ emails = <<>>
    /\ resp = <<>>
    /\ query = <<>>
    /\ noDedup = FALSE
    /\ loc = 0
    /\ mainpc = "idle"
    /\ spawned = 0
    /\ gpc = <<>>
    /\ idx = <<>>
    /\ gerr = <<>>
    /\ sem = 0
    /\ mu = 0
    /\ wg = 0
    /\ events = <<>>
    /\ errors = <<>>
    /\ warnings = <<>>
    /\ out = <<>>
    /\ ret = ""
    /\ din = <<>>
    /\ dout = <<>>
    /\ cancelled = FALSE
    /\ NoRun

SpecTracking == InitTracking /\ [][NextTracking]_vars

(* C30 as stated: a SaveConfig call for one account leaves what LoadConfig
   returns for every other account as it was before the call, whichever
   format the file had and whichever path it was read from. *)
C30_OtherAccountsUnchanged ==
    [][(saved' # saved \/ primaryFile' # primaryFile) =>
          \A b \in AccountNames :
              normalizeAccount(b) # normalizeAccount(saved'.account) =>
                  loadConfig(primaryFile', legacyFile', b)
                      = loadConfig(primaryFile, legacyFile, b)]_vars

====
